---- MODULE Spec2Model ----
(***************************************************************************)
(* A model of the bft Brainfuck interpreter: the program loader            *)
(* (bft_types: BfProgram::new, Operation::char_to_operation,               *)
(* BfProgram::bracket_check) and the tape virtual machine (bft_interp:     *)
(* VirtualMachine and its operation handlers).                             *)
(*                                                                         *)
(* Indices are 0-based as in the Rust source (program_position, tape_head, *)
(* character and byte offsets); a TLA+ sequence s holds element i of the   *)
(* Rust vector at s[i + 1].                                                *)
(***************************************************************************)
EXTENDS Integers, Sequences, FiniteSets, TLC

(***************************************************************************)
(* Bounds of the model.                                                    *)
(***************************************************************************)
\* longest source text enumerated exhaustively by the loader specification
MaxTextLen == 3

\* longest tape a VM is constructed with
MaxTape == 2

\* most calls made on one VM (handlers called directly, and interpret)
MaxCalls == 3

\* most instructions dispatched by interpret on one VM
MaxSteps == 12

(***************************************************************************)
(* Characters.  A character is a token; "LF" is the newline, "x" an ASCII  *)
(* comment character and "e_acute" a comment character whose UTF-8         *)
(* encoding is two bytes long.                                             *)
(***************************************************************************)
OpChars == {">", "<", "+", "-", ".", ",", "[", "]"}

Alphabet == OpChars \cup {"LF", "x", "e_acute"}

\* char::len_utf8 of the characters of Alphabet
len_utf8(c) == IF c = "e_acute" THEN 2 ELSE 1

\* the operations of the language (enum Operation)
Operation ==
    {"IncrementPointer", "DecrementPointer", "IncrementByte", "DecrementByte",
     "OutputByte", "InputByte", "StartLoop", "EndLoop"}

\* the mutant of char_to_operation: ',' is taken for a comment and '<' for '>'
char_to_operation_confused(c) ==
    CASE c = ">" -> "IncrementPointer"
      [] c = "<" -> "IncrementPointer"
      [] c = "+" -> "IncrementByte"
      [] c = "-" -> "DecrementByte"
      [] c = "." -> "OutputByte"
      [] c = "[" -> "StartLoop"
      [] c = "]" -> "EndLoop"
      [] OTHER -> "None"

\* Operation::char_to_operation; "None" is Option::None
char_to_operation(c) ==
    CASE c = ">" -> "IncrementPointer"
      [] c = "<" -> "DecrementPointer"
      [] c = "+" -> "IncrementByte"
      [] c = "-" -> "DecrementByte"
      [] c = "." -> "OutputByte"
      [] c = "," -> "InputByte"
      [] c = "[" -> "StartLoop"
      [] c = "]" -> "EndLoop"
      [] OTHER -> "None"

\* InstructionInfo::new: position is the pair (line, column)
InstructionInfo(operation, position) ==
    [operation |-> operation, line |-> position[1], column |-> position[2]]

(***************************************************************************)
(* line_col::LineColLookup over the UTF-8 bytes of the text.               *)
(***************************************************************************)
RECURSIVE byte_offset(_, _)
\* the byte offset at which character number k (0-based) of src starts
byte_offset(src, k) ==
    IF k = 0 THEN 0 ELSE byte_offset(src, k - 1) + len_utf8(src[k])

\* LineColLookup::new: the byte offsets at which lines start
line_heads(src) ==
    {0} \cup {byte_offset(src, k) : k \in {j \in 1..Len(src) : src[j] = "LF"}}

\* LineColLookup::get(index): index is a byte offset into the text
LineColLookup_get(src, index) ==
    LET before == {h \in line_heads(src) : h <= index}
        line_start_index == CHOOSE h \in before : \A g \in before : g <= h
    IN  <<Cardinality(before), index - line_start_index + 1>>

RECURSIVE filter_map(_, _)
\* contents.chars().enumerate().filter_map(..) from character number n on:
\* the lookup is given the character number n
filter_map(contents, n) ==
    IF n >= Len(contents) THEN <<>>
    ELSE LET operation == char_to_operation(contents[n + 1])
             rest == filter_map(contents, n + 1)
         IN  IF operation = "None" THEN rest
             ELSE <<InstructionInfo(operation, LineColLookup_get(contents, n))>>
                      \o rest

\* BfProgram::new: the instructions of the program it returns
BfProgram_new(contents) == filter_map(contents, 0)

(***************************************************************************)
(* BfProgram::bracket_check.  The state of its scan is a record:           *)
(*   i              the number of instructions the for loop has examined   *)
(*   opening_loops  the stack of pending '[' (the index of each            *)
(*                  instruction the source pushes a reference to)          *)
(*   matching       the open -> close pairs recorded so far                *)
(*   result         "Running", "Ok", "UnexpectedClose" or "TooFew"         *)
(*   line, column   the position the error message carries (0: none)       *)
(***************************************************************************)
check_start ==
    [i |-> 0, opening_loops |-> <<>>, matching |-> <<>>,
     result |-> "Running", line |-> 0, column |-> 0]

\* Vec::push
push(stack, v) == Append(stack, v)

\* the mutant of pop: takes the oldest pending '[' instead of the newest
pop_oldest(stack) ==
    [value |-> stack[1], rest |-> SubSeq(stack, 2, Len(stack))]

\* Vec::pop on a non-empty vector: the last element and what remains
pop(stack) ==
    [value |-> stack[Len(stack)], rest |-> SubSeq(stack, 1, Len(stack) - 1)]

\* the loader's map gains the pair open -> close when a '[' is popped
record_pair(matching, open, close) ==
    [k \in (DOMAIN matching) \cup {open} |->
        IF k = open THEN close ELSE matching[k]]

\* the mutant of unexpected_close: the scan goes on past the ']'
unexpected_close_ignored(c, instruction) == [c EXCEPT !.i = c.i + 1]

\* the None arm of the match on pop: return Err("Unexpected ']' ..")
unexpected_close(c, instruction) ==
    [c EXCEPT !.i = c.i + 1,
              !.result = "UnexpectedClose",
              !.line = instruction.line,
              !.column = instruction.column]

\* one iteration of the for loop of bracket_check, on instruction number c.i
check_iteration(c, instrs) ==
    LET instruction == instrs[c.i + 1]
    IN  IF instruction.operation = "StartLoop"
        THEN [c EXCEPT !.i = c.i + 1,
                       !.opening_loops = push(c.opening_loops, c.i)]
        ELSE IF instruction.operation = "EndLoop"
        THEN IF c.opening_loops # <<>>
             THEN [c EXCEPT !.i = c.i + 1,
                            !.opening_loops = pop(c.opening_loops).rest,
                            !.matching = record_pair(c.matching,
                                             pop(c.opening_loops).value, c.i)]
             ELSE unexpected_close(c, instruction)
        ELSE [c EXCEPT !.i = c.i + 1]

\* the match after the for loop of bracket_check
check_finish(c, instrs) ==
    IF c.opening_loops # <<>>
    THEN LET instruction == instrs[pop(c.opening_loops).value + 1]
         IN  [c EXCEPT !.opening_loops = pop(c.opening_loops).rest,
                       !.result = "TooFew",
                       !.line = instruction.line,
                       !.column = instruction.column]
    ELSE [c EXCEPT !.result = "Ok"]

RECURSIVE check_from(_, _)
\* bracket_check run to its return from the scan state c
check_from(c, instrs) ==
    IF c.result # "Running" THEN c
    ELSE IF c.i < Len(instrs) THEN check_from(check_iteration(c, instrs), instrs)
    ELSE check_finish(c, instrs)

\* BfProgram::bracket_check: the scan state at its return
bracket_check(instrs) == check_from(check_start, instrs)

\* BfProgram::bracket_matching_positions: the map of a loaded program
bracket_matching_positions_of(instrs) == bracket_check(instrs).matching

(***************************************************************************)
(* The virtual machine.  A VM value is a record                            *)
(*   [tape, tape_head, program_position, growable, input, output, stdout,  *)
(*    writer]                                                              *)
(* where input is what is left of the reader, output what the stream       *)
(* behind the writer has received, stdout the lines println! has printed   *)
(* and writer the stream the caller passes as writer: "buffer" (a buffer   *)
(* of its own, as in the tests) or "stdout" (the standard output of the    *)
(* process, as in run_bft).                                                *)
(* A handler returns [vm |-> the VM after it, result |-> its result].      *)
(***************************************************************************)
DEFAULT_TAPE_LENGTH == 30000

\* usize::MAX (2^64 - 1 on the targets of the crate) is beyond the integers
\* TLC represents; the largest of those stands for it: like usize::MAX it is
\* above every index of a program or a tape
USIZE_MAX == 2147483647

\* n - 1 on usize in a build without overflow checks: 0 - 1 wraps
wrapping_pred(n) == IF n = 0 THEN USIZE_MAX ELSE n - 1

\* Result::Ok(value)
Ok(value) ==
    [kind |-> "Ok", value |-> value, error |-> "", line |-> 0, column |-> 0,
     operation |-> "", position |-> 0, tape_length |-> 0]

\* Result::Err(error) for the errors that carry no field
Err(error) ==
    [kind |-> "Err", value |-> 0, error |-> error, line |-> 0, column |-> 0,
     operation |-> "", position |-> 0, tape_length |-> 0]

\* a panic of the thread (index out of bounds, arithmetic overflow)
Panic(why) ==
    [kind |-> "Panic", value |-> 0, error |-> why, line |-> 0, column |-> 0,
     operation |-> "", position |-> 0, tape_length |-> 0]

\* Err(VirtualMachineError::InvalidHeadPosition {..}); indexing the
\* instructions at program_position panics when it is out of bounds
InvalidHeadPosition(vm, instrs) ==
    IF vm.program_position >= Len(instrs) THEN Panic("index out of bounds")
    ELSE [kind |-> "Err", value |-> 0, error |-> "InvalidHeadPosition",
          line |-> instrs[vm.program_position + 1].line,
          column |-> instrs[vm.program_position + 1].column,
          operation |-> instrs[vm.program_position + 1].operation,
          position |-> vm.tape_head,
          tape_length |-> Len(vm.tape)]

\* VirtualMachine::new
VirtualMachine_new(tape_length, growable, input) ==
    [tape |-> [k \in 1..(IF tape_length = 0 THEN DEFAULT_TAPE_LENGTH
                         ELSE tape_length) |-> 0],
     tape_head |-> 0,
     program_position |-> 0,
     growable |-> growable,
     input |-> input,
     output |-> <<>>,
     stdout |-> <<>>]

\* the mutant of increment: no wrap at the top of the range
increment_unwrapped(v) == v + 1

\* <u8 as CellKind>::increment: u8::wrapping_add(1)
increment(v) == IF v = 255 THEN 0 ELSE v + 1

\* <u8 as CellKind>::decrement: u8::wrapping_sub(1)
decrement(v) == IF v = 0 THEN 255 ELSE v - 1

\* the mutant of from_u8: the top bit of the byte is lost
from_u8_seven_bits(value) == value % 128

\* <u8 as CellKind>::from_u8
from_u8(value) == value

\* <u8 as CellKind>::to_u8
to_u8(v) == v

\* the mutant of check_head_location: a growable tape is grown to twice its
\* length
check_head_location_doubles(vm, instrs) ==
    IF vm.tape_head > Len(vm.tape) - 1
    THEN IF vm.growable
         THEN [vm |-> [vm EXCEPT !.tape =
                           vm.tape \o [k \in 1..Len(vm.tape) |-> 0]],
               result |-> Ok(vm.program_position)]
         ELSE [vm |-> vm, result |-> InvalidHeadPosition(vm, instrs)]
    ELSE [vm |-> vm, result |-> Ok(vm.program_position)]

\* the mutant of check_head_location: a growable tape is not grown
check_head_location_no_growth(vm, instrs) ==
    IF vm.tape_head > Len(vm.tape) - 1 /\ ~vm.growable
    THEN [vm |-> vm, result |-> InvalidHeadPosition(vm, instrs)]
    ELSE [vm |-> vm, result |-> Ok(vm.program_position)]

\* the mutant of check_head_location: the tape is grown whether or not the
\* VM is growable
check_head_location_always_grows(vm, instrs) ==
    IF vm.tape_head > Len(vm.tape) - 1
    THEN [vm |-> [vm EXCEPT !.tape = Append(vm.tape, 0)],
          result |-> Ok(vm.program_position)]
    ELSE [vm |-> vm, result |-> Ok(vm.program_position)]

\* VirtualMachine::check_head_location
check_head_location(vm, instrs) ==
    IF vm.tape_head > Len(vm.tape) - 1
    THEN IF vm.growable
         THEN [vm |-> [vm EXCEPT !.tape = Append(vm.tape, 0)],
               result |-> Ok(vm.program_position)]
         ELSE [vm |-> vm, result |-> InvalidHeadPosition(vm, instrs)]
    ELSE [vm |-> vm, result |-> Ok(vm.program_position)]

\* VirtualMachine::increment_cell_at_head
increment_cell_at_head(vm) ==
    IF vm.tape_head >= Len(vm.tape)
    THEN [vm |-> vm, result |-> Panic("index out of bounds")]
    ELSE [vm |-> [vm EXCEPT !.tape[vm.tape_head + 1] =
                                increment(vm.tape[vm.tape_head + 1])],
          result |-> Ok(vm.program_position + 1)]

\* VirtualMachine::decrement_cell_at_head
decrement_cell_at_head(vm) ==
    IF vm.tape_head >= Len(vm.tape)
    THEN [vm |-> vm, result |-> Panic("index out of bounds")]
    ELSE [vm |-> [vm EXCEPT !.tape[vm.tape_head + 1] =
                                decrement(vm.tape[vm.tape_head + 1])],
          result |-> Ok(vm.program_position + 1)]

\* a line println! prints, as an item of a stream of bytes: the items from
\* 256 on are lines, so that no byte is equal to one
println_line(tape_head, tape_length) == 256 + tape_head + 256 * tape_length

\* the mutant of read_into_cell: at the end of the input the cell is set to
\* zero and the handler succeeds
read_into_cell_eof_zero(vm) ==
    IF vm.tape_head >= Len(vm.tape)
    THEN [vm |-> vm, result |-> Panic("index out of bounds")]
    ELSE [vm |-> [vm EXCEPT !.input = IF vm.input = <<>> THEN <<>>
                                      ELSE Tail(vm.input),
                            !.tape[vm.tape_head + 1] =
                                IF vm.input = <<>> THEN 0
                                ELSE from_u8(Head(vm.input))],
          result |-> Ok(vm.program_position + 1)]

\* VirtualMachine::read_into_cell: read_exact of one byte fails at the end
\* of the input; println! comes before the store into the tape, and prints
\* to the standard output, which is the stream behind the writer when the
\* caller passes that
read_into_cell(vm) ==
    IF vm.input = <<>> THEN [vm |-> vm, result |-> Err("IOError")]
    ELSE LET read == [vm EXCEPT !.input = Tail(vm.input),
                                !.stdout = Append(vm.stdout,
                                              <<vm.tape_head, Len(vm.tape)>>),
                                !.output =
                                    IF vm.writer = "stdout"
                                    THEN Append(vm.output,
                                             println_line(vm.tape_head,
                                                          Len(vm.tape)))
                                    ELSE vm.output]
         IN  IF vm.tape_head >= Len(vm.tape)
             THEN [vm |-> read, result |-> Panic("index out of bounds")]
             ELSE [vm |-> [read EXCEPT !.tape[vm.tape_head + 1] =
                                           from_u8(Head(vm.input))],
                   result |-> Ok(vm.program_position + 1)]

\* VirtualMachine::write_out_of_cell; written tells whether write_all
\* succeeds on the writer
write_out_of_cell(vm, written) ==
    IF vm.tape_head >= Len(vm.tape)
    THEN [vm |-> vm, result |-> Panic("index out of bounds")]
    ELSE IF ~written THEN [vm |-> vm, result |-> Err("IOError")]
    ELSE [vm |-> [vm EXCEPT !.output =
                      Append(vm.output, to_u8(vm.tape[vm.tape_head + 1]))],
          result |-> Ok(vm.program_position + 1)]

\* the mutant of move_right: the head is moved without the check before
move_right_unchecked(vm, instrs) ==
    LET moved == [vm EXCEPT !.tape_head = vm.tape_head + 1]
        after == check_head_location(moved, instrs)
    IN  IF after.result.kind # "Ok" THEN after
        ELSE [vm |-> after.vm, result |-> Ok(vm.program_position + 1)]

\* VirtualMachine::move_right
move_right(vm, instrs) ==
    LET before == check_head_location(vm, instrs)
        moved == [before.vm EXCEPT !.tape_head = before.vm.tape_head + 1]
        after == check_head_location(moved, instrs)
    IN  IF before.result.kind # "Ok" THEN before
        ELSE IF after.result.kind # "Ok" THEN after
        ELSE [vm |-> after.vm, result |-> Ok(vm.program_position + 1)]

\* VirtualMachine::move_left
move_left(vm, instrs) ==
    LET before == check_head_location(vm, instrs)
        moved == [before.vm EXCEPT !.tape_head = before.vm.tape_head - 1]
        after == check_head_location(moved, instrs)
    IN  IF before.result.kind # "Ok" THEN before
        ELSE IF before.vm.tape_head = 0
        THEN [vm |-> before.vm,
              result |-> InvalidHeadPosition(before.vm, instrs)]
        ELSE IF after.result.kind # "Ok" THEN after
        ELSE [vm |-> after.vm, result |-> Ok(vm.program_position + 1)]

\* the mutant of start_loop: the map is looked up at tape_head instead of
\* program_position
start_loop_by_head(vm, matching) ==
    IF vm.tape_head \in DOMAIN matching
    THEN [vm |-> vm, result |-> Ok(matching[vm.tape_head])]
    ELSE [vm |-> vm, result |-> Err("BracketFailure")]

\* the mutant of start_loop: returns the index after the matching ']'
start_loop_past_close(vm, matching) ==
    IF vm.program_position \in DOMAIN matching
    THEN [vm |-> vm, result |-> Ok(matching[vm.program_position] + 1)]
    ELSE [vm |-> vm, result |-> Err("BracketFailure")]

\* VirtualMachine::start_loop
start_loop(vm, matching) ==
    IF vm.program_position \in DOMAIN matching
    THEN [vm |-> vm, result |-> Ok(matching[vm.program_position])]
    ELSE [vm |-> vm, result |-> Err("BracketFailure")]

\* the mutant of end_loop: jumps back to the '[' itself
end_loop_to_open(vm, matching) ==
    LET keys == {key \in DOMAIN matching :
                     matching[key] = vm.program_position}
    IN  IF vm.tape_head >= Len(vm.tape)
        THEN [vm |-> vm, result |-> Panic("index out of bounds")]
        ELSE IF vm.tape[vm.tape_head + 1] # from_u8(0) /\ keys # {}
        THEN [vm |-> vm, result |-> Ok(CHOOSE key \in keys : TRUE)]
        ELSE [vm |-> vm, result |-> Ok(vm.program_position + 1)]

\* VirtualMachine::end_loop: the values of the map are distinct, so the
\* iteration finds at most one key
end_loop(vm, matching) ==
    LET keys == {key \in DOMAIN matching :
                     matching[key] = vm.program_position}
    IN  IF vm.tape_head >= Len(vm.tape)
        THEN [vm |-> vm, result |-> Panic("index out of bounds")]
        ELSE IF vm.tape[vm.tape_head + 1] # from_u8(0) /\ keys # {}
        THEN [vm |-> vm, result |-> Ok((CHOOSE key \in keys : TRUE) + 1)]
        ELSE [vm |-> vm, result |-> Ok(vm.program_position + 1)]

\* the match of interpret: the handler of an operation
dispatch(operation, vm, instrs, matching, written) ==
    CASE operation = "IncrementByte" -> increment_cell_at_head(vm)
      [] operation = "DecrementByte" -> decrement_cell_at_head(vm)
      [] operation = "IncrementPointer" -> move_right(vm, instrs)
      [] operation = "DecrementPointer" -> move_left(vm, instrs)
      [] operation = "OutputByte" -> write_out_of_cell(vm, written)
      [] operation = "InputByte" -> read_into_cell(vm)
      [] operation = "StartLoop" -> start_loop(vm, matching)
      [] operation = "EndLoop" -> end_loop(vm, matching)

(***************************************************************************)
(* The inputs the specifications draw from.                                *)
(***************************************************************************)
\* every text of at most n characters of Alphabet
AllTexts(n) == UNION {[1..k -> Alphabet] : k \in 0..n}

\* longer programs: those of the tests of the repository and loops of
\* every shape (sequential, nested, never entered, never left)
ProgramTexts ==
    { <<"x", "LF", "x">>,
      <<"[", "x", "x", "x", "x", ",", ".", "]", ",", ".",
        "x", "x", "x", "x", "x", "x", "x">>,
      <<"+", "-", "x", "LF", "x", "LF", "[", "]", ">", "<", "x", "LF",
        "x", ".", ",">>,
      <<"+", "[", "-", "]">>,
      <<"+", "[", "]">>,
      <<",", "[", ".", ",", "]">>,
      <<"+", "[", ">", "+", "<", "-", "]", ">", ".">>,
      <<"[", "]", "+", "[", "[", "-", "]", "]">>,
      <<">", "+", ">", "<", "<", "<">> }

Texts == AllTexts(MaxTextLen) \cup ProgramTexts

\* the bytes of the input streams
Inputs == { <<>>, <<1>>, <<255, 0>> }

\* the streams a caller passes as writer: a buffer of its own or the
\* standard output of the process
Writers == {"buffer", "stdout"}

(***************************************************************************)
(* State.                                                                  *)
(***************************************************************************)
VARIABLES
    text,              \* the source text given to the loader
    instructions,      \* BfProgram.instructions
    load_pc,           \* "start", "new", "checking" or "checked"
    check,             \* the scan state of bracket_check
    tape,              \* VirtualMachine.tape
    tape_head,         \* VirtualMachine.tape_head
    program_position,  \* VirtualMachine.program_position
    growable,          \* VirtualMachine.growable
    input,             \* what is left of the reader
    output,            \* what the stream behind the writer has received
    stdout,            \* what println! has printed
    writer,            \* the stream passed as writer: "buffer" or "stdout"
    vm_pc,             \* "none", "idle", "interpret" or "panicked"
    last_position,     \* the local last_position of interpret
    run,               \* interpret: "none", "running", "ok", "err", "panic"
    last_call,         \* the handler called last
    last_fetch,        \* the index interpret fetched at last (-1: none)
    last_result,       \* what the handler called last returned
    calls,             \* the calls made on the VM
    steps,             \* the instructions interpret has dispatched
    other              \* a second VM over the same program (a record)

loader_vars == <<text, instructions, load_pc, check>>

vm_vars ==
    <<tape, tape_head, program_position, growable, input, output, stdout,
      writer, vm_pc, last_position, run, last_call, last_fetch, last_result,
      calls, steps>>

vars == <<loader_vars, vm_vars, other>>

\* the VM as the record the handlers take
VM ==
    [tape |-> tape, tape_head |-> tape_head,
     program_position |-> program_position, growable |-> growable,
     input |-> input, output |-> output, stdout |-> stdout,
     writer |-> writer]

\* the fields a handler may assign (program_position is assigned by
\* interpret only)
SetVM(vm) ==
    /\ tape' = vm.tape
    /\ tape_head' = vm.tape_head
    /\ input' = vm.input
    /\ output' = vm.output
    /\ stdout' = vm.stdout
    /\ growable' = growable
    /\ writer' = writer

\* the map the VM reads through program.bracket_matching_positions()
bracket_matching_positions == check.matching

\* no second VM has been constructed
NoOther ==
    [tape |-> <<>>, tape_head |-> 0, program_position |-> 0,
     growable |-> FALSE, input |-> <<>>, output |-> <<>>, vm_pc |-> "none",
     last_position |-> 0, run |-> "none", last_result |-> Ok(0), steps |-> 0]

\* no VM has been constructed
NoVM ==
    /\ other = NoOther
    /\ tape = <<>>
    /\ tape_head = 0
    /\ program_position = 0
    /\ growable = FALSE
    /\ input = <<>>
    /\ output = <<>>
    /\ stdout = <<>>
    /\ writer = "buffer"
    /\ vm_pc = "none"
    /\ last_position = 0
    /\ run = "none"
    /\ last_call = "none"
    /\ last_fetch = -1
    /\ last_result = Ok(0)
    /\ calls = 0
    /\ steps = 0

(***************************************************************************)
(* The loader: BfProgram::new, then bracket_check one iteration at a time. *)
(***************************************************************************)
InitLoad ==
    /\ text \in Texts
    /\ instructions = <<>>
    /\ load_pc = "start"
    /\ check = check_start
    /\ NoVM

BfProgramNew ==
    /\ load_pc = "start"
    /\ instructions' = BfProgram_new(text)
    /\ load_pc' = "new"
    /\ UNCHANGED <<text, check, vm_vars, other>>

BracketCheckIteration ==
    /\ load_pc \in {"new", "checking"}
    /\ check.result = "Running"
    /\ check.i < Len(instructions)
    /\ check' = check_iteration(check, instructions)
    /\ load_pc' = IF check'.result = "Running" THEN "checking" ELSE "checked"
    /\ UNCHANGED <<text, instructions, vm_vars, other>>

BracketCheckFinish ==
    /\ load_pc \in {"new", "checking"}
    /\ check.result = "Running"
    /\ check.i >= Len(instructions)
    /\ check' = check_finish(check, instructions)
    /\ load_pc' = "checked"
    /\ UNCHANGED <<text, instructions, vm_vars, other>>

NextLoad == BfProgramNew \/ BracketCheckIteration \/ BracketCheckFinish

SpecLoad == InitLoad /\ [][NextLoad]_vars

(***************************************************************************)
(* The virtual machine over a loaded program.  A VM is constructed over    *)
(* the Program of a text; then its public methods are called in any order: *)
(* the handlers directly (as the tests do) and interpret, which is         *)
(* modelled one iteration of its loop at a time.  The VM reads the bracket *)
(* map of the Program, which the loader builds in its bracket analysis, so *)
(* the programs are those whose analysis succeeds.                         *)
(***************************************************************************)
InitVM ==
    /\ text \in ProgramTexts
    /\ instructions = BfProgram_new(text)
    /\ load_pc = "checked"
    /\ check = bracket_check(instructions)
    /\ check.result = "Ok"
    /\ \E tape_length \in 1..MaxTape, g \in BOOLEAN, in \in Inputs :
          LET vm == VirtualMachine_new(tape_length, g, in)
          IN  /\ tape = vm.tape
              /\ tape_head = vm.tape_head
              /\ program_position = vm.program_position
              /\ growable = vm.growable
              /\ input = vm.input
              /\ output = vm.output
              /\ stdout = vm.stdout
    /\ writer \in Writers
    /\ vm_pc = "idle"
    /\ last_position = 0
    /\ run = "none"
    /\ last_call = "new"
    /\ last_fetch = -1
    /\ last_result = Ok(0)
    /\ calls = 0
    /\ steps = 0

\* one VM over the program
Init == InitVM /\ other = NoOther

\* a handler called directly on the VM: r is what it returns
Called(name, r) ==
    /\ vm_pc = "idle"
    /\ calls < MaxCalls
    /\ calls' = calls + 1
    /\ SetVM(r.vm)
    /\ last_call' = name
    /\ last_result' = r.result
    /\ vm_pc' = IF r.result.kind = "Panic" THEN "panicked" ELSE "idle"
    /\ UNCHANGED <<loader_vars, program_position, last_position, run,
                   last_fetch, steps, other>>

CheckHeadLocation ==
    Called("check_head_location", check_head_location(VM, instructions))

IncrementCellAtHead ==
    Called("increment_cell_at_head", increment_cell_at_head(VM))

DecrementCellAtHead ==
    Called("decrement_cell_at_head", decrement_cell_at_head(VM))

ReadIntoCell == Called("read_into_cell", read_into_cell(VM))

WriteOutOfCell ==
    \E written \in BOOLEAN :
        Called("write_out_of_cell", write_out_of_cell(VM, written))

MoveRight == Called("move_right", move_right(VM, instructions))

MoveLeft == Called("move_left", move_left(VM, instructions))

StartLoop == Called("start_loop", start_loop(VM, bracket_matching_positions))

EndLoop == Called("end_loop", end_loop(VM, bracket_matching_positions))

\* the name of the handler interpret dispatches an operation to
handler_of(operation) ==
    CASE operation = "IncrementByte" -> "increment_cell_at_head"
      [] operation = "DecrementByte" -> "decrement_cell_at_head"
      [] operation = "IncrementPointer" -> "move_right"
      [] operation = "DecrementPointer" -> "move_left"
      [] operation = "OutputByte" -> "write_out_of_cell"
      [] operation = "InputByte" -> "read_into_cell"
      [] operation = "StartLoop" -> "start_loop"
      [] operation = "EndLoop" -> "end_loop"

\* interpret is called: last_position = instructions.len() - 1.  On an empty
\* program the subtraction overflows: a build with overflow checks panics,
\* one without wraps to usize::MAX
\* the mutant of InterpretCall: a run starts again from instruction 0
InterpretCallRestarts ==
    /\ vm_pc = "idle"
    /\ calls < MaxCalls
    /\ calls' = calls + 1
    /\ last_call' = "interpret"
    /\ program_position' = 0
    /\ \E overflow_checks \in BOOLEAN :
          IF Len(instructions) = 0 /\ overflow_checks
          THEN /\ vm_pc' = "panicked"
               /\ run' = "panic"
               /\ last_result' = Panic("attempt to subtract with overflow")
               /\ UNCHANGED last_position
          ELSE /\ vm_pc' = "interpret"
               /\ run' = "running"
               /\ last_position' = wrapping_pred(Len(instructions))
               /\ UNCHANGED last_result
    /\ UNCHANGED <<loader_vars, tape, tape_head, growable,
                   input, output, stdout, writer, last_fetch,
                   steps, other>>

InterpretCall ==
    /\ vm_pc = "idle"
    /\ calls < MaxCalls
    /\ calls' = calls + 1
    /\ last_call' = "interpret"
    /\ \E overflow_checks \in BOOLEAN :
          IF Len(instructions) = 0 /\ overflow_checks
          THEN /\ vm_pc' = "panicked"
               /\ run' = "panic"
               /\ last_result' = Panic("attempt to subtract with overflow")
               /\ UNCHANGED last_position
          ELSE /\ vm_pc' = "interpret"
               /\ run' = "running"
               /\ last_position' = wrapping_pred(Len(instructions))
               /\ UNCHANGED last_result
    /\ UNCHANGED <<loader_vars, tape, tape_head, program_position, growable,
                   input, output, stdout, writer, last_fetch,
                   steps, other>>

\* the mutant of InterpretStep: the error of a handler is dropped and the
\* loop goes on with the next instruction
InterpretStepGoesOn ==
    /\ vm_pc = "interpret"
    /\ program_position <= last_position
    /\ steps < MaxSteps
    /\ steps' = steps + 1
    /\ last_fetch' = program_position
    /\ IF program_position >= Len(instructions)
       THEN /\ vm_pc' = "panicked"
            /\ run' = "panic"
            /\ last_result' = Panic("index out of bounds")
            /\ UNCHANGED <<tape, tape_head, program_position, growable,
                           input, output, stdout, writer, last_call>>
       ELSE \E written \in BOOLEAN :
              LET instruction == instructions[program_position + 1]
                  r == dispatch(instruction.operation, VM, instructions,
                                bracket_matching_positions, written)
              IN  /\ SetVM(r.vm)
                  /\ last_call' = handler_of(instruction.operation)
                  /\ last_result' = r.result
                  /\ program_position' =
                        IF r.result.kind = "Ok" THEN r.result.value
                        ELSE program_position + 1
                  /\ vm_pc' = IF r.result.kind = "Panic" THEN "panicked"
                              ELSE "interpret"
                  /\ run' = IF r.result.kind = "Panic" THEN "panic"
                            ELSE "running"
    /\ UNCHANGED <<loader_vars, last_position, calls, other>>

\* one iteration of the while loop of interpret: fetch, dispatch, and
\* assign the next position or return the error
InterpretStep ==
    /\ vm_pc = "interpret"
    /\ program_position <= last_position
    /\ steps < MaxSteps
    /\ steps' = steps + 1
    /\ last_fetch' = program_position
    /\ IF program_position >= Len(instructions)
       THEN /\ vm_pc' = "panicked"
            /\ run' = "panic"
            /\ last_result' = Panic("index out of bounds")
            /\ UNCHANGED <<tape, tape_head, program_position, growable,
                           input, output, stdout, writer, last_call>>
       ELSE \E written \in BOOLEAN :
              LET instruction == instructions[program_position + 1]
                  r == dispatch(instruction.operation, VM, instructions,
                                bracket_matching_positions, written)
              IN  /\ SetVM(r.vm)
                  /\ last_call' = handler_of(instruction.operation)
                  /\ last_result' = r.result
                  /\ program_position' =
                        IF r.result.kind = "Ok" THEN r.result.value
                        ELSE program_position
                  /\ vm_pc' = CASE r.result.kind = "Ok" -> "interpret"
                                [] r.result.kind = "Err" -> "idle"
                                [] OTHER -> "panicked"
                  /\ run' = CASE r.result.kind = "Ok" -> "running"
                              [] r.result.kind = "Err" -> "err"
                              [] OTHER -> "panic"
    /\ UNCHANGED <<loader_vars, last_position, calls, other>>

\* the while condition of interpret fails: Ok(())
InterpretReturn ==
    /\ vm_pc = "interpret"
    /\ program_position > last_position
    /\ vm_pc' = "idle"
    /\ run' = "ok"
    /\ last_call' = "interpret"
    /\ last_result' = Ok(0)
    /\ UNCHANGED <<loader_vars, tape, tape_head, program_position, growable,
                   input, output, stdout, writer, last_position,
                   last_fetch, calls, steps, other>>

Next ==
    \/ CheckHeadLocation
    \/ IncrementCellAtHead
    \/ DecrementCellAtHead
    \/ ReadIntoCell
    \/ WriteOutOfCell
    \/ MoveRight
    \/ MoveLeft
    \/ StartLoop
    \/ EndLoop
    \/ InterpretCall
    \/ InterpretStep
    \/ InterpretReturn

Spec == Init /\ [][Next]_vars

(***************************************************************************)
(* Two virtual machines over one program.  Each VM borrows the Program     *)
(* (&'a BfProgram) and owns its tape and cursors; the caller gives each    *)
(* its own reader, and the second its own buffer as writer.  println!      *)
(* prints to the one standard output of the process.  interpret is called  *)
(* on each, and the iterations of the two loops interleave in any order.   *)
(***************************************************************************)
\* the second VM as the record the handlers take
OtherVM ==
    [tape |-> other.tape, tape_head |-> other.tape_head,
     program_position |-> other.program_position,
     growable |-> other.growable, input |-> other.input,
     output |-> other.output, stdout |-> stdout, writer |-> "buffer"]

\* VirtualMachine::new for the second VM
InitPair ==
    /\ InitVM
    /\ \E tape_length \in 1..MaxTape, g \in BOOLEAN, in \in Inputs :
          LET vm == VirtualMachine_new(tape_length, g, in)
          IN  other = [tape |-> vm.tape, tape_head |-> vm.tape_head,
                       program_position |-> vm.program_position,
                       growable |-> vm.growable, input |-> vm.input,
                       output |-> vm.output, vm_pc |-> "idle",
                       last_position |-> 0, run |-> "none",
                       last_result |-> Ok(0), steps |-> 0]

\* interpret is called on the second VM
OtherInterpretCall ==
    /\ other.vm_pc = "idle"
    /\ other.run = "none"
    /\ \E overflow_checks \in BOOLEAN :
          IF Len(instructions) = 0 /\ overflow_checks
          THEN other' = [other EXCEPT
                            !.vm_pc = "panicked",
                            !.run = "panic",
                            !.last_result =
                                Panic("attempt to subtract with overflow")]
          ELSE other' = [other EXCEPT
                            !.vm_pc = "interpret",
                            !.run = "running",
                            !.last_position =
                                wrapping_pred(Len(instructions))]
    /\ UNCHANGED <<loader_vars, vm_vars>>

\* one iteration of the loop of interpret on the second VM; the line its
\* InputCell prints goes to the standard output, which is the stream behind
\* the writer of the first VM when that one was given the standard output
OtherInterpretStep ==
    /\ other.vm_pc = "interpret"
    /\ other.program_position <= other.last_position
    /\ other.steps < MaxSteps
    /\ IF other.program_position >= Len(instructions)
       THEN /\ other' = [other EXCEPT
                             !.steps = other.steps + 1,
                             !.vm_pc = "panicked",
                             !.run = "panic",
                             !.last_result = Panic("index out of bounds")]
            /\ UNCHANGED <<stdout, output>>
       ELSE \E written \in BOOLEAN :
              LET instruction == instructions[other.program_position + 1]
                  r == dispatch(instruction.operation, OtherVM, instructions,
                                bracket_matching_positions, written)
              IN  /\ other' =
                        [other EXCEPT
                            !.steps = other.steps + 1,
                            !.tape = r.vm.tape,
                            !.tape_head = r.vm.tape_head,
                            !.input = r.vm.input,
                            !.output = r.vm.output,
                            !.last_result = r.result,
                            !.program_position =
                                IF r.result.kind = "Ok" THEN r.result.value
                                ELSE other.program_position,
                            !.vm_pc =
                                CASE r.result.kind = "Ok" -> "interpret"
                                  [] r.result.kind = "Err" -> "idle"
                                  [] OTHER -> "panicked",
                            !.run =
                                CASE r.result.kind = "Ok" -> "running"
                                  [] r.result.kind = "Err" -> "err"
                                  [] OTHER -> "panic"]
                  /\ stdout' = r.vm.stdout
                  /\ output' =
                        IF writer = "stdout" /\ r.vm.stdout # stdout
                        THEN Append(output,
                                 println_line(other.tape_head,
                                              Len(other.tape)))
                        ELSE output
    /\ UNCHANGED <<loader_vars, tape, tape_head, program_position, growable,
                   input, writer, vm_pc, last_position, run, last_call,
                   last_fetch, last_result, calls, steps>>

\* the while condition of interpret fails on the second VM: Ok(())
OtherInterpretReturn ==
    /\ other.vm_pc = "interpret"
    /\ other.program_position > other.last_position
    /\ other' = [other EXCEPT !.vm_pc = "idle", !.run = "ok",
                              !.last_result = Ok(0)]
    /\ UNCHANGED <<loader_vars, vm_vars>>

NextPair ==
    \/ InterpretCall
    \/ InterpretStep
    \/ InterpretReturn
    \/ OtherInterpretCall
    \/ OtherInterpretStep
    \/ OtherInterpretReturn

SpecPair == InitPair /\ [][NextPair]_vars

(***************************************************************************)
(* The VM beside a reference machine.  The reference machine is the VM     *)
(* with the standard loop semantics in place of start_loop: a LoopStart    *)
(* met with a zero cell at the head skips to just past its LoopEnd, and    *)
(* one met with a non-zero cell enters the body.  Both are given the same  *)
(* program, tape length, growth policy, input and kind of writer, and a    *)
(* writer that works.                                                      *)
(***************************************************************************)
\* LoopStart in the standard semantics
std_start_loop(vm, matching) ==
    IF vm.program_position \notin DOMAIN matching
    THEN [vm |-> vm, result |-> Err("BracketFailure")]
    ELSE IF vm.tape_head >= Len(vm.tape)
    THEN [vm |-> vm, result |-> Panic("index out of bounds")]
    ELSE IF vm.tape[vm.tape_head + 1] = 0
    THEN [vm |-> vm, result |-> Ok(matching[vm.program_position] + 1)]
    ELSE [vm |-> vm, result |-> Ok(vm.program_position + 1)]

\* the reference machine as the record the handlers take: it has a standard
\* output of its own
StdVM ==
    [tape |-> other.tape, tape_head |-> other.tape_head,
     program_position |-> other.program_position,
     growable |-> other.growable, input |-> other.input,
     output |-> other.output, stdout |-> <<>>, writer |-> writer]

\* the reference machine starts as the VM does
InitLoops ==
    /\ InitVM
    /\ other = [tape |-> tape, tape_head |-> tape_head,
                program_position |-> program_position,
                growable |-> growable, input |-> input,
                output |-> output, vm_pc |-> "idle",
                last_position |-> 0, run |-> "none",
                last_result |-> Ok(0), steps |-> 0]

\* one iteration of the loop of the reference machine
StdStep ==
    /\ other.vm_pc = "interpret"
    /\ other.program_position <= other.last_position
    /\ other.steps < MaxSteps
    /\ IF other.program_position >= Len(instructions)
       THEN other' = [other EXCEPT
                         !.steps = other.steps + 1,
                         !.vm_pc = "panicked",
                         !.run = "panic",
                         !.last_result = Panic("index out of bounds")]
       ELSE LET instruction == instructions[other.program_position + 1]
                r == IF instruction.operation = "StartLoop"
                     THEN std_start_loop(StdVM, bracket_matching_positions)
                     ELSE dispatch(instruction.operation, StdVM,
                                   instructions, bracket_matching_positions,
                                   TRUE)
            IN  other' =
                    [other EXCEPT
                        !.steps = other.steps + 1,
                        !.tape = r.vm.tape,
                        !.tape_head = r.vm.tape_head,
                        !.input = r.vm.input,
                        !.output = r.vm.output,
                        !.last_result = r.result,
                        !.program_position =
                            IF r.result.kind = "Ok" THEN r.result.value
                            ELSE other.program_position,
                        !.vm_pc =
                            CASE r.result.kind = "Ok" -> "interpret"
                              [] r.result.kind = "Err" -> "idle"
                              [] OTHER -> "panicked",
                        !.run =
                            CASE r.result.kind = "Ok" -> "running"
                              [] r.result.kind = "Err" -> "err"
                              [] OTHER -> "panic"]
    /\ UNCHANGED <<loader_vars, vm_vars>>

NextLoops ==
    \/ InterpretCall
    \/ InterpretStep
    \/ InterpretReturn
    \/ OtherInterpretCall
    \/ StdStep
    \/ OtherInterpretReturn

SpecLoops == InitLoops /\ [][NextLoops]_vars

(***************************************************************************)
(* Properties of the loader, checked under SpecLoad.  They are stated over *)
(* the text and the instruction sequence by counting, not by the scan.     *)
(***************************************************************************)
\* how many of the first n characters of t are the character c
CountChar(t, c, n) == Cardinality({k \in 1..n : t[k] = c})

\* the text has as many '[' as ']' and no prefix has more ']' than '['
Balanced(t) ==
    /\ CountChar(t, "[", Len(t)) = CountChar(t, "]", Len(t))
    /\ \A n \in 0..Len(t) : CountChar(t, "]", n) <= CountChar(t, "[", n)

\* the 0-based indices of the instructions with the given operation
IndicesOf(operation) ==
    {i \in 0..(Len(instructions) - 1) :
        instructions[i + 1].operation = operation}

\* '[' minus ']' among the instructions with indices in lo..hi
Depth(lo, hi) ==
    Cardinality({i \in IndicesOf("StartLoop") : lo <= i /\ i <= hi})
        - Cardinality({i \in IndicesOf("EndLoop") : lo <= i /\ i <= hi})

\* the ']' that close no '[': more ']' than '[' up to and including them
UnmatchedCloses == {j \in IndicesOf("EndLoop") : Depth(0, j) < 0}

\* the '[' that no later ']' closes
UnclosedOpens ==
    {i \in IndicesOf("StartLoop") :
        \A j \in (i + 1)..(Len(instructions) - 1) : Depth(i + 1, j) >= 0}

\* the least element of a non-empty set of numbers
Least(S) == CHOOSE x \in S : \A y \in S : x <= y

\* the greatest element of a non-empty set of numbers
Greatest(S) == CHOOSE x \in S : \A y \in S : y <= x

\* the positions (1-based) of the characters of the text that are operations
OpPositions == {p \in 1..Len(text) : text[p] \in OpChars}

\* the position in the text of the character behind instruction number k
\* (1-based): the k-th character that is an operation
PositionOf(k) ==
    CHOOSE p \in OpPositions : Cardinality({q \in OpPositions : q <= p}) = k

\* the operation each of the eight characters stands for (ops.rs, the doc
\* comments of enum Operation)
Represents ==
    [c \in OpChars |->
        IF c = ">" THEN "IncrementPointer"
        ELSE IF c = "<" THEN "DecrementPointer"
        ELSE IF c = "+" THEN "IncrementByte"
        ELSE IF c = "-" THEN "DecrementByte"
        ELSE IF c = "." THEN "OutputByte"
        ELSE IF c = "," THEN "InputByte"
        ELSE IF c = "[" THEN "StartLoop"
        ELSE "EndLoop"]

\* C1: loading is fail-closed: once the loader has returned a Program
\* (BfProgram::new has returned), the text it was given is balanced.
C1_FailClosed == load_pc # "start" => Balanced(text)

\* C2: for a program whose bracket analysis succeeded, the open -> close map
\* is a bijection from the indices of the StartLoop instructions onto the
\* indices of the EndLoop instructions, each '[' maps to a later ']' with the
\* brackets strictly between them balanced, and no two '[' share a ']'.
C2_BracketMapBijection ==
    (load_pc = "checked" /\ check.result = "Ok") =>
        LET m == check.matching
        IN  /\ DOMAIN m = IndicesOf("StartLoop")
            /\ {m[i] : i \in DOMAIN m} = IndicesOf("EndLoop")
            /\ \A i \in DOMAIN m :
                  /\ i < m[i]
                  /\ Depth(i + 1, m[i] - 1) = 0
                  /\ \A j \in (i + 1)..(m[i] - 1) : Depth(i + 1, j) >= 0
            /\ \A i, j \in DOMAIN m : m[i] = m[j] => i = j

\* a successful analysis of a program with one loop nested in another
C2_Witness ==
    /\ load_pc = "checked"
    /\ check.result = "Ok"
    /\ \E i, j \in DOMAIN check.matching :
          i < j /\ check.matching[j] < check.matching[i]

\* C3: the scan fails with the unmatched-close error exactly when it has
\* examined the first ']' that closes no '['; the error carries the line and
\* column of that instruction and the scan examines nothing after it.
C3_UnmatchedCloseFirst ==
    /\ check.result = "UnexpectedClose" =>
          /\ UnmatchedCloses # {}
          /\ check.i = Least(UnmatchedCloses) + 1
          /\ check.line = instructions[check.i].line
          /\ check.column = instructions[check.i].column
          /\ load_pc = "checked"
    /\ (load_pc # "start" /\ UnmatchedCloses # {}) =>
          /\ check.i <= Least(UnmatchedCloses) + 1
          /\ check.i = Least(UnmatchedCloses) + 1 =>
                check.result = "UnexpectedClose"

\* the scan has failed on an unmatched ']' that has instructions, and another
\* unmatched ']', after it
C3_Witness ==
    /\ check.result = "UnexpectedClose"
    /\ check.i < Len(instructions)
    /\ Cardinality(UnmatchedCloses) >= 2

C5_Filtering ==
    load_pc # "start" =>
        /\ Len(instructions) = Cardinality(OpPositions)
        /\ \A k \in 1..Len(instructions) :
              instructions[k].operation = Represents[text[PositionOf(k)]]

\* a loaded text with a comment character between two operations
C5_Witness ==
    /\ load_pc # "start"
    /\ Len(instructions) >= 2
    /\ \E p \in 1..Len(text) :
          /\ text[p] \notin OpChars
          /\ PositionOf(1) < p
          /\ p < PositionOf(2)

\* C6: the line of an instruction is 1 plus the number of newlines before
\* its character, and its column is 1 plus the number of characters between
\* the newline before it (or the start of the text) and its character.
C6_LineColumn ==
    load_pc # "start" =>
        \A k \in 1..Len(instructions) :
            LET p == PositionOf(k)
                newlines == {q \in 1..(p - 1) : text[q] = "LF"}
                line_start == IF newlines = {} THEN 0 ELSE Greatest(newlines)
            IN  /\ instructions[k].line = 1 + Cardinality(newlines)
                /\ instructions[k].column = p - line_start

(***************************************************************************)
(* Properties of the virtual machine, checked under Spec.                  *)
(***************************************************************************)
\* this step executes the named handler, called directly or by interpret
Executes(name) ==
    /\ last_call' = name
    /\ (calls' = calls + 1 \/ steps' = steps + 1)

\* this step is an iteration of interpret whose handler returned Ok, so
\* that its value is assigned to program_position
Assigns ==
    /\ vm_pc = "interpret"
    /\ steps' = steps + 1
    /\ last_result'.kind = "Ok"

\* the instruction interpret is at
Current == instructions[program_position + 1]

\* C7: in every state of a VM, 0 <= tape_head < tape length.
C7_HeadInRange == 0 <= tape_head /\ tape_head < Len(tape)

\* C7, amended: in every state 0 <= tape_head <= tape length, on a growable
\* VM tape_head < tape length, and tape_head comes to equal the tape length
\* only by a move_right that fails on a VM that is not growable.
C7_HeadAtMostLength ==
    /\ [](/\ 0 <= tape_head
          /\ tape_head <= Len(tape)
          /\ growable => tape_head < Len(tape))
    /\ [][(tape_head < Len(tape) /\ tape_head' = Len(tape')) =>
              /\ ~growable
              /\ Executes("move_right")
              /\ last_result'.kind # "Ok"]_vars

\* move_right has returned InvalidHeadPosition and left the head at the
\* tape length
C7_Witness ==
    /\ tape_head = Len(tape)
    /\ vm_pc = "idle"
    /\ last_call = "move_right"
    /\ last_result.error = "InvalidHeadPosition"

\* C8: the value interpret assigns to program_position after an instruction
\* is never smaller than the value before it.
C8_Monotonic == [][Assigns => program_position' >= program_position]_vars

\* C8, amended: the value interpret assigns to program_position after an
\* instruction is greater than the value before it, except after a LoopEnd
\* met with a non-zero cell at the head: that assigns the index after the
\* matching LoopStart, which is at most the index of the LoopEnd.
C8_MonotonicButLoopEnd ==
    [][Assigns =>
          IF /\ Current.operation = "EndLoop"
             /\ tape[tape_head + 1] # 0
             /\ \E i \in DOMAIN check.matching :
                   check.matching[i] = program_position
          THEN /\ program_position' <= program_position
               /\ program_position' - 1 \in DOMAIN check.matching
               /\ check.matching[program_position' - 1] = program_position
          ELSE program_position' > program_position]_vars

\* interpret has just jumped back from a LoopEnd into the body of its loop
C8_Witness ==
    /\ vm_pc = "interpret"
    /\ last_call = "end_loop"
    /\ last_result.kind = "Ok"
    /\ program_position < last_fetch

\* C9: for a program whose bracket analysis succeeded, once interpret has
\* been called program_position is in 0..len, no instruction is fetched at
\* an index >= len, and program_position = len only when interpret returns
\* (or has returned) Ok.
C9_PositionInRange ==
    (check.result = "Ok" /\ run # "none") =>
        /\ 0 <= program_position
        /\ program_position <= Len(instructions)
        /\ last_fetch < Len(instructions)
        /\ program_position = Len(instructions) => run \in {"running", "ok"}

\* C10: on a cell holding v, IncrementCell stores (v + 1) mod 256 and
\* DecrementCell (v - 1) mod 256; each leaves tape_head, the length of the
\* tape and every other cell as they were and returns program_position + 1.
C10_Wrapping ==
    [][\A d \in {1, -1} :
          (/\ Executes(IF d = 1 THEN "increment_cell_at_head"
                       ELSE "decrement_cell_at_head")
           /\ tape_head < Len(tape)) =>
              /\ tape' = [tape EXCEPT ![tape_head + 1] = (@ + d) % 256]
              /\ tape_head' = tape_head
              /\ last_result' = Ok(program_position + 1)]_vars

\* an increment has just taken a cell from 255 to 0
C10_Witness ==
    /\ last_call = "increment_cell_at_head"
    /\ last_result.kind = "Ok"
    /\ tape[tape_head + 1] = 0

\* C11: on a VM that is not growable, with a tape of n >= 1 cells, a
\* move_right made with the head at h < n - 1 succeeds and takes the head to
\* h + 1, and one made with the head at n - 1 returns InvalidHeadPosition: so
\* from head 0 exactly n - 1 consecutive calls succeed and the n-th fails.
C11_MoveRightCount ==
    [][(Executes("move_right") /\ ~growable /\ tape_head < Len(tape)) =>
          IF tape_head + 1 < Len(tape)
          THEN /\ last_result'.kind = "Ok"
               /\ tape_head' = tape_head + 1
          ELSE /\ last_result'.kind = "Err"
               /\ last_result'.error = "InvalidHeadPosition"]_vars

\* C12: on a growable VM a move_right made with the head on the last cell
\* succeeds, appends exactly one cell holding zero, leaves every cell there
\* was as it was, and leaves the head on the new last cell.
C12_GrowsByOne ==
    [][(Executes("move_right") /\ growable /\ tape_head = Len(tape) - 1) =>
          /\ last_result' = Ok(program_position + 1)
          /\ tape' = Append(tape, 0)
          /\ tape_head' = Len(tape') - 1]_vars

\* a move_right has grown a tape that holds a non-zero cell beyond the
\* longest tape a VM is constructed with
C12_Witness ==
    /\ growable
    /\ last_call = "move_right"
    /\ last_result.kind = "Ok"
    /\ Len(tape) > MaxTape
    /\ tape_head = Len(tape) - 1
    /\ tape[Len(tape)] = 0
    /\ \E k \in 1..(Len(tape) - 1) : tape[k] # 0

\* C13: on a VM that is not growable no operation, failing or not, changes
\* the length of the tape: it is in every state what it was at construction.
C13_FixedLength == [][~growable => Len(tape') = Len(tape)]_vars

\* interpret on a VM that is not growable has run the head off the end of
\* the tape after other instructions, and returned the error
C13_Witness ==
    /\ ~growable
    /\ run = "err"
    /\ last_call = "move_right"
    /\ last_result.error = "InvalidHeadPosition"
    /\ steps >= 3
    /\ tape_head = Len(tape)

\* C14: a move_left made with the head at 0 returns InvalidHeadPosition and
\* leaves the head at 0 and the tape as it was, growable or not; one made
\* with the head at h, 0 < h < tape length, succeeds, takes the head to
\* h - 1 and returns program_position + 1.
C14_MoveLeft ==
    [][(Executes("move_left") /\ tape_head < Len(tape)) =>
          IF tape_head = 0
          THEN /\ last_result'.kind = "Err"
               /\ last_result'.error = "InvalidHeadPosition"
               /\ tape_head' = 0
               /\ tape' = tape
          ELSE /\ last_result' = Ok(program_position + 1)
               /\ tape_head' = tape_head - 1
               /\ tape' = tape]_vars

\* C15: start_loop executed at a program_position that is a key of the
\* open -> close map returns the close index the map holds for it, which is
\* the index of a LoopEnd, whatever the cell at the head holds, and changes
\* neither the tape nor tape_head.
C15_StartLoopToClose ==
    [][(/\ Executes("start_loop")
        /\ program_position \in DOMAIN bracket_matching_positions) =>
          /\ last_result' = Ok(bracket_matching_positions[program_position])
          /\ instructions[last_result'.value + 1].operation = "EndLoop"
          /\ tape' = tape
          /\ tape_head' = tape_head]_vars

\* interpret has dispatched a LoopStart with a non-zero cell at the head and
\* is now at the matching LoopEnd
C15_Witness ==
    /\ vm_pc = "interpret"
    /\ last_call = "start_loop"
    /\ last_result.kind = "Ok"
    /\ last_fetch \in DOMAIN bracket_matching_positions
    /\ program_position = bracket_matching_positions[last_fetch]
    /\ Current.operation = "EndLoop"
    /\ tape[tape_head + 1] # 0

\* C16: end_loop executed at the index j of a LoopEnd whose matching
\* LoopStart is at index i returns i + 1 when the cell at the head is
\* non-zero and j + 1 when it is zero, and changes neither the tape nor
\* tape_head.
C16_EndLoop ==
    [][\A i \in DOMAIN bracket_matching_positions :
          (/\ Executes("end_loop")
           /\ bracket_matching_positions[i] = program_position
           /\ tape_head < Len(tape)) =>
              /\ last_result' = Ok(IF tape[tape_head + 1] # 0 THEN i + 1
                                   ELSE program_position + 1)
              /\ tape' = tape
              /\ tape_head' = tape_head]_vars

\* interpret has gone round a loop and then left it through its LoopEnd,
\* met with a zero cell at the head
C16_Witness ==
    /\ vm_pc = "interpret"
    /\ last_call = "end_loop"
    /\ last_result.kind = "Ok"
    /\ program_position = last_fetch + 1
    /\ tape[tape_head + 1] = 0
    /\ steps >= 5
    /\ \E i \in DOMAIN bracket_matching_positions :
          /\ bracket_matching_positions[i] = last_fetch
          /\ i + 1 < last_fetch

\* the LoopEnd matching the LoopStart at index i: the first ']' after it up
\* to which the brackets from i on balance
MatchingClose(i) ==
    Least({j \in IndicesOf("EndLoop") : j > i /\ Depth(i, j) = 0})

\* the text "[some,.],.program" of the tests: instructions [ , . ] , . at
\* indices 0..5
LoopTestText ==
    <<"[", "x", "x", "x", "x", ",", ".", "]", ",", ".",
      "x", "x", "x", "x", "x", "x", "x">>

\* start_loop is executed at the index of a LoopStart
AtLoopStart ==
    /\ Executes("start_loop")
    /\ program_position < Len(instructions)
    /\ Current.operation = "StartLoop"

\* C17: for "[some,.],.program" and for any loaded program, start_loop
\* returns the index immediately after the matching LoopEnd.
C17_StartLoopPastClose ==
    [][AtLoopStart =>
          last_result' = Ok(MatchingClose(program_position) + 1)]_vars

\* C17, amended: for any loaded program start_loop returns the index of the
\* matching LoopEnd itself, so that interpret dispatches that LoopEnd next;
\* for "[some,.],.program" it returns 3.
C17_StartLoopAtClose ==
    [][AtLoopStart =>
          /\ last_result' = Ok(MatchingClose(program_position))
          /\ text = LoopTestText => last_result'.value = 3
          /\ vm_pc = "interpret" =>
                /\ program_position' = MatchingClose(program_position)
                /\ instructions[program_position' + 1].operation = "EndLoop"
       ]_vars

\* start_loop called on a new VM over "[some,.],.program", as
\* tests::test_start_loop does, has returned 3
C17_Witness ==
    /\ text = LoopTestText
    /\ calls = 1
    /\ last_call = "start_loop"
    /\ last_result = Ok(3)
    /\ program_position = 0

\* the output stream still starts with what had been written to it
OutputKept == SubSeq(output', 1, Len(output)) = output

\* C18: when a handler returns an error during interpret, interpret returns
\* that error at once: program_position is still the index of the failing
\* instruction, what was written to the output before is still there, and
\* as long as interpret is not called again no instruction is dispatched.
C18_ErrorAborts ==
    /\ [][(/\ vm_pc = "interpret"
           /\ steps' = steps + 1
           /\ last_result'.kind = "Err") =>
             /\ vm_pc' = "idle"
             /\ run' = "err"
             /\ last_call' = handler_of(Current.operation)
             /\ program_position' = program_position
             /\ last_fetch' = program_position
             /\ OutputKept]_vars
    /\ [][(run = "err" /\ run' = "err") =>
             /\ steps' = steps
             /\ last_fetch' = last_fetch
             /\ program_position' = program_position
             /\ OutputKept]_vars

\* interpret, the only call made on the VM, has written to the output and
\* then returned the error of a later instruction
C18_Witness ==
    /\ run = "err"
    /\ vm_pc = "idle"
    /\ calls = 1
    /\ steps >= 2
    /\ output # <<>>
    /\ last_result.kind = "Err"
    /\ program_position = last_fetch
    /\ instructions[program_position + 1].operation # "OutputByte"

\* C19: interpret returns Ok exactly when program_position has moved past
\* the last instruction: it has returned Ok only with program_position at
\* len or beyond, and with program_position there its loop is left.  On a
\* program with no instruction it returns Ok at once: nothing is fetched or
\* dispatched and nothing is read, written or changed on the tape.
C19_SuccessAtEnd ==
    /\ run = "ok" => program_position >= Len(instructions)
    /\ (vm_pc = "interpret" /\ program_position >= Len(instructions)) =>
           program_position > last_position
    /\ (Len(instructions) = 0 /\ run # "none") =>
           /\ run \in {"running", "ok"}
           /\ last_fetch = -1
           /\ steps = 0

\* C20: an OutputCell executed with a working output stream appends one
\* byte, the value of the cell at the head, to the output stream and changes
\* neither the tape nor tape_head; and no other step of interpret changes
\* the output stream, so that after a run it holds the head-cell values of
\* the OutputCells executed, in order, and nothing else.
C20_OutputExact ==
    /\ [][(/\ Executes("write_out_of_cell")
           /\ tape_head < Len(tape)
           /\ last_result'.error # "IOError") =>
              /\ last_result' = Ok(program_position + 1)
              /\ output' = Append(output, tape[tape_head + 1])
              /\ tape' = tape
              /\ tape_head' = tape_head]_vars
    /\ [][(vm_pc = "interpret" /\ ~Executes("write_out_of_cell")) =>
              output' = output]_vars

\* C21: an InputCell executed with at least one byte left in the input
\* takes exactly the first byte b off the input, stores b in the cell at the
\* head, leaves every other cell, tape_head and the length of the tape as
\* they were and returns program_position + 1.
C21_ReadOneByte ==
    [][(/\ Executes("read_into_cell")
        /\ input # <<>>
        /\ tape_head < Len(tape)) =>
          /\ input' = Tail(input)
          /\ tape' = [tape EXCEPT ![tape_head + 1] = Head(input)]
          /\ tape_head' = tape_head
          /\ last_result' = Ok(program_position + 1)]_vars

\* the byte 255 has just been read into the cell at the head, and the byte
\* after it is still in the input
C21_Witness ==
    /\ last_call = "read_into_cell"
    /\ last_result.kind = "Ok"
    /\ tape[tape_head + 1] = 255
    /\ input = <<0>>

\* C22: an InputCell executed with the input exhausted returns IOError and
\* leaves the tape, tape_head and program_position as they were; when
\* interpret dispatched it, interpret stops there with that error.
C22_ReadAtEnd ==
    [][(Executes("read_into_cell") /\ input = <<>>) =>
          /\ last_result' = Err("IOError")
          /\ tape' = tape
          /\ tape_head' = tape_head
          /\ program_position' = program_position
          /\ vm_pc = "interpret" =>
                /\ run' = "err"
                /\ vm_pc' = "idle"
                /\ last_fetch' = program_position]_vars

\* interpret has read the whole input and stopped at a later InputCell,
\* whose cell still holds the non-zero byte read before
C22_Witness ==
    /\ run = "err"
    /\ last_call = "read_into_cell"
    /\ last_result = Err("IOError")
    /\ steps >= 2
    /\ input = <<>>
    /\ instructions[program_position + 1].operation = "InputByte"
    /\ tape[tape_head + 1] # 0

\* this step is an iteration of the loop of interpret that dispatches an
\* instruction
Dispatches ==
    /\ vm_pc = "interpret"
    /\ steps' = steps + 1
    /\ program_position < Len(instructions)

\* C23: over a program whose bracket analysis succeeded, whenever interpret
\* dispatches a LoopStart program_position is a key of the open -> close
\* map, and no instruction interpret dispatches returns BracketFailure.
C23_NoBracketFailure ==
    [][Dispatches =>
          /\ Current.operation = "StartLoop" =>
                program_position \in DOMAIN bracket_matching_positions
          /\ last_result'.error # "BracketFailure"]_vars

\* interpret has dispatched the LoopStart of a loop nested in another
C23_Witness ==
    /\ vm_pc = "interpret"
    /\ last_call = "start_loop"
    /\ last_result.kind = "Ok"
    /\ \E i \in DOMAIN bracket_matching_positions :
          /\ i < last_fetch
          /\ last_fetch \in DOMAIN bracket_matching_positions
          /\ bracket_matching_positions[last_fetch]
                 < bracket_matching_positions[i]

\* C24: of two VMs over one program, stepped in any interleaving, no step
\* of one changes the program, or the tape, tape_head, program_position,
\* output or result of the other, so that each ends as it does when run
\* alone.  Checked under SpecPair.
C24_Isolated ==
    /\ [][other' # other =>
             UNCHANGED <<text, instructions, check, tape, tape_head,
                         program_position, input, output, run,
                         last_result>>]_vars
    /\ [][(calls' # calls \/ steps' # steps \/ vm_pc' # vm_pc) =>
             UNCHANGED <<text, instructions, check, other>>]_vars

\* C25: increment_cell_at_head and decrement_cell_at_head never fail: in
\* every state the public handlers lead to, a failed head movement included,
\* they complete and return program_position + 1.
C25_CellHandlersNeverFail ==
    [][(\/ Executes("increment_cell_at_head")
        \/ Executes("decrement_cell_at_head")) =>
          last_result' = Ok(program_position + 1)]_vars

\* this step executes a handler that builds InvalidHeadPosition
ExecutesHeadCheck ==
    \/ Executes("move_right")
    \/ Executes("move_left")
    \/ Executes("check_head_location")

\* C26: in every InvalidHeadPosition that move_right, move_left or
\* check_head_location returns, position is the tape head position before
\* the failing operation, tape_length the length of the tape, and line,
\* column and operation those of the instruction at program_position.
C26_ErrorFields ==
    [][(ExecutesHeadCheck /\ last_result'.error = "InvalidHeadPosition") =>
          /\ last_result'.position = tape_head
          /\ last_result'.tape_length = Len(tape')
          /\ program_position < Len(instructions)
          /\ last_result'.line = Current.line
          /\ last_result'.column = Current.column
          /\ last_result'.operation = Current.operation]_vars

\* C27: on a VM that is not growable, a move_right that returns
\* InvalidHeadPosition leaves tape_head equal to the tape length, and there
\* it stays: every later check_head_location, move_right and move_left
\* returns InvalidHeadPosition too and leaves tape_head as it is, so that
\* tape_head never exceeds the tape length.
C27_HeadStuck ==
    /\ [](tape_head <= Len(tape))
    /\ [][(/\ ~growable
           /\ Executes("move_right")
           /\ last_result'.error = "InvalidHeadPosition") =>
             tape_head' = Len(tape')]_vars
    /\ [][(~growable /\ tape_head = Len(tape)) =>
             /\ tape_head' = tape_head
             /\ Len(tape') = Len(tape)
             /\ ExecutesHeadCheck =>
                   /\ last_result'.kind = "Err"
                   /\ last_result'.error = "InvalidHeadPosition"]_vars

\* with the head stuck at the tape length, a move_left has returned
\* InvalidHeadPosition as well
C27_Witness ==
    /\ ~growable
    /\ tape_head = Len(tape)
    /\ vm_pc = "idle"
    /\ calls >= 2
    /\ last_call = "move_left"
    /\ last_result.error = "InvalidHeadPosition"

\* the first run of the VM and the run of the reference machine are both
\* over, and no write of the VM failed
BothRan ==
    /\ calls = 1
    /\ run \in {"ok", "err", "panic"}
    /\ other.run \in {"ok", "err", "panic"}
    /\ ~(last_call = "write_out_of_cell" /\ last_result.error = "IOError")

\* C28: the loop scheme of the VM is equivalent to the standard semantics:
\* run on the same program and input, the VM and the reference machine end
\* with the same tape, tape_head, output and result; and in the VM a
\* LoopStart met with a zero cell at the head is followed by its LoopEnd and
\* then by the instruction after it, so that the body is not executed.
\* Checked under SpecLoops.
C28_LoopSchemes ==
    /\ [](BothRan =>
            /\ run = other.run
            /\ run # "panic" =>
                  /\ tape = other.tape
                  /\ tape_head = other.tape_head
                  /\ output = other.output
                  /\ run = "err" => last_result = other.last_result)
    /\ [][(/\ Dispatches
           /\ last_call = "start_loop"
           /\ tape[tape_head + 1] = 0) =>
             /\ Current.operation = "EndLoop"
             /\ last_fetch \in DOMAIN bracket_matching_positions
             /\ bracket_matching_positions[last_fetch] = program_position
             /\ program_position' = program_position + 1]_vars

\* both machines have gone round a loop and finished with output written,
\* the VM in more dispatches than the reference machine
C28_Witness ==
    /\ BothRan
    /\ run = "ok"
    /\ output # <<>>
    /\ steps > other.steps
    /\ other.steps >= 5
    /\ \E i \in DOMAIN bracket_matching_positions :
          bracket_matching_positions[i] > i + 1

\* the greater of two numbers
Max(a, b) == IF a >= b THEN a ELSE b

\* C29: on a growable VM move_right never fails, and it leaves the tape as
\* long as the longer of what it was and 1 + the head it reaches, while no
\* other operation (move_left and check_head_location among them) changes
\* the length of the tape: so the tape is always as long as the longer of
\* its initial length and 1 + the greatest tape_head reached.
C29_LazyGrowth ==
    /\ [](growable => Len(tape) >= tape_head + 1)
    /\ [][(growable /\ Executes("move_right")) =>
             /\ last_result' = Ok(program_position + 1)
             /\ tape_head' = tape_head + 1
             /\ Len(tape') = Max(Len(tape), tape_head' + 1)]_vars
    /\ [][(growable /\ ~Executes("move_right")) =>
             /\ Len(tape') = Len(tape)
             /\ tape_head' <= tape_head]_vars

\* a growable tape has grown beyond the longest initial length, and the
\* head has then moved left of its last cell
C29_Witness ==
    /\ growable
    /\ Len(tape) > MaxTape
    /\ tape_head < Len(tape) - 1
    /\ last_call = "move_left"
    /\ last_result.kind = "Ok"

\* the program has no LoopStart and no LoopEnd
LoopFree ==
    \A i \in 1..Len(instructions) :
        instructions[i].operation \notin {"StartLoop", "EndLoop"}

\* C30: on a program with no LoopStart or LoopEnd interpret always comes to
\* an end without a panic: each iteration dispatches the instruction at
\* program_position, and either moves program_position to the next index or
\* ends the run with the error of that instruction; the loop is left with
\* success once program_position is past the last instruction, so that a
\* run of a new VM has dispatched the indices 0, 1, 2, ... once each, at
\* most len of them.
C30_LoopFreeRun ==
    /\ [](LoopFree => run # "panic")
    /\ [](LoopFree /\ vm_pc = "interpret" =>
             program_position <= Len(instructions))
    /\ []((LoopFree /\ calls = 1 /\ run \in {"running", "ok", "err"}) =>
             /\ steps <= Len(instructions)
             /\ steps = program_position + (IF run = "err" THEN 1 ELSE 0)
             /\ run = "ok" => steps = Len(instructions))
    /\ [][(LoopFree /\ vm_pc = "interpret" /\ steps' = steps + 1) =>
             /\ program_position < Len(instructions)
             /\ last_fetch' = program_position
             /\ \/ /\ last_result'.kind = "Ok"
                   /\ program_position' = program_position + 1
                   /\ run' = "running"
                \/ /\ last_result'.kind = "Err"
                   /\ program_position' = program_position
                   /\ run' = "err"]_vars

\* what a run may read or change, apart from its own bookkeeping
RunState == <<tape, tape_head, program_position, input, output, stdout, steps>>

\* interpret is called on a VM whose last run returned success
RunsAgain ==
    /\ run = "ok"
    /\ Len(instructions) > 0
    /\ vm_pc = "idle"
    /\ last_call' = "interpret"
    /\ calls' = calls + 1

\* C31: once interpret has returned success on a program with instructions,
\* program_position is the number of instructions; a further call of
\* interpret enters its loop with nothing changed, and a loop entered with
\* program_position there is left at once with success: no instruction is
\* dispatched, nothing is read or written, and the tape, tape_head and
\* program_position stay as they were.
C31_RunIdempotent ==
    /\ []((run = "ok" /\ Len(instructions) > 0) =>
             program_position = Len(instructions))
    /\ [][RunsAgain =>
             /\ vm_pc' = "interpret"
             /\ run' = "running"
             /\ RunState' = RunState]_vars
    /\ [][(/\ vm_pc = "interpret"
           /\ Len(instructions) > 0
           /\ program_position = Len(instructions)) =>
             /\ vm_pc' = "idle"
             /\ run' = "ok"
             /\ last_result' = Ok(0)
             /\ RunState' = RunState]_vars

\* interpret has been called again after a run that dispatched instructions
\* and returned success, and is about to return
C31_Witness ==
    /\ vm_pc = "interpret"
    /\ last_call = "interpret"
    /\ run = "running"
    /\ Len(instructions) > 0
    /\ program_position = Len(instructions)
    /\ steps > 0

====
